---- MODULE Spec2Model ----
(***************************************************************************)
(* Model of audio_downloader.py (main, YouTubeAudioDownloader).            *)
(*                                                                         *)
(*   Spec        one process: main(), the loading of the settings, then    *)
(*               one run of download(): credential resolution, format      *)
(*               probe under the alarm, playlist check, primary and        *)
(*               escalated transfer, cleanup in the finally block          *)
(*   SpecSelect  the format selection of download() on a descriptor list   *)
(*   SpecUrl     _clean_youtube_url on URLs                                *)
(*   SpecBitrate _get_opus_bitrate on quality settings                     *)
(*   SpecResolve _get_base_options on settings and environments            *)
(*   SpecCookies the two writers of the Netscape cookie file on cookies     *)
(***************************************************************************)
EXTENDS Integers, Sequences, FiniteSets, TLC

(***************************************************************************)
(* Bounds of the model.                                                    *)
(***************************************************************************)
MaxProbeFormats == 2

(***************************************************************************)
(* Files.  A path is a string; "none" stands for Python's None.            *)
(***************************************************************************)
None == "none"
CustomPath == "custom.txt"
TempNames == <<"tmp1", "tmp2", "tmp3">>

Browsers == <<"chrome", "firefox", "edge">>
BrowserSet == {"chrome", "firefox", "edge"}

RECURSIVE SeqRange(_)
SeqRange(s) == IF s = <<>> THEN {} ELSE {Head(s)} \cup SeqRange(Tail(s))

RECURSIVE SelectSeqNe(_, _)
SelectSeqNe(s, x) ==
    IF s = <<>> THEN <<>>
    ELSE IF Head(s) = x THEN SelectSeqNe(Tail(s), x)
         ELSE <<Head(s)>> \o SelectSeqNe(Tail(s), x)

(***************************************************************************)
(* The environment one credential resolution runs in: whether the          *)
(* browser_cookie3 import succeeds, whether a Firefox cookies.sqlite is    *)
(* found, whether its conversion succeeds, and what the generic extraction *)
(* gives for each browser ("error": the call raises, "zero": no cookie for *)
(* the domain, "some": cookies saved to a file, "savefail": cookies found  *)
(* but _save_cookies_to_file returns None).                                *)
(***************************************************************************)
GenericOutcomes == {"error", "zero", "some", "savefail"}
AllResolveEnvs ==
    [lib : BOOLEAN, store : BOOLEAN, conv : BOOLEAN,
     gen : [BrowserSet -> GenericOutcomes]]

\* one environment for each distinguishable case: without the library nothing
\* else is looked at, without a cookie store there is nothing to convert
ResolveEnvs ==
    {e \in AllResolveEnvs :
        /\ ~e.store => ~e.conv
        /\ ~e.lib => (~e.store /\ \A b \in BrowserSet : e.gen[b] = "error")}

\* the environments of the resolutions inside a run: a generic extraction
\* either raises or gives cookies that are saved
RunEnvs ==
    {e \in ResolveEnvs : \A b \in BrowserSet : e.gen[b] \in {"error", "some"}}

NoLibraryEnv ==
    [lib |-> FALSE, store |-> FALSE, conv |-> FALSE,
     gen |-> [b \in BrowserSet |-> "error"]]

(***************************************************************************)
(* The generic loop of _get_browser_cookies_fallback: the preferred        *)
(* browser first, then the others in dictionary order; the first browser   *)
(* whose cookies are saved ends the loop.  Returns the browsers tried, in  *)
(* order, and whether a file was produced.                                 *)
(***************************************************************************)
RECURSIVE GenericLoop(_, _)
GenericLoop(order, gen) ==
    IF order = <<>> THEN [found |-> FALSE, trace |-> <<>>]
    ELSE IF gen[Head(order)] = "some"
         THEN [found |-> TRUE, trace |-> <<Head(order)>>]
         ELSE LET rest == GenericLoop(Tail(order), gen)
              IN  [found |-> rest.found, trace |-> <<Head(order)>> \o rest.trace]

\* the generic loop going through the browsers as they are listed
BrowserOrderAsListed(preferred) == Browsers

BrowserOrder(preferred) == <<preferred>> \o SelectSeqNe(Browsers, preferred)

\* _get_browser_cookies_fallback with the generic loop ahead of the direct path
GetBrowserCookiesGenericFirst(preferred, env) ==
    IF ~env.lib THEN [found |-> FALSE, trace |-> <<>>]
    ELSE LET g == GenericLoop(BrowserOrder(preferred), env.gen)
         IN  IF g.found \/ preferred # "firefox" THEN g
             ELSE [found |-> env.store /\ env.conv, trace |-> g.trace \o <<"direct">>]

(***************************************************************************)
(* _get_browser_cookies_fallback.  trace lists the sources attempted, in   *)
(* order: "direct" is the direct Firefox path, a browser name is one       *)
(* generic extraction through browser_cookie3.                             *)
(***************************************************************************)
GetBrowserCookiesFallback(preferred, env) ==
    IF ~env.lib THEN [found |-> FALSE, trace |-> <<>>]
    ELSE IF preferred = "firefox" /\ env.store /\ env.conv
         THEN [found |-> TRUE, trace |-> <<"direct">>]
         ELSE LET g == GenericLoop(BrowserOrder(preferred), env.gen)
                  d == IF preferred = "firefox" THEN <<"direct">> ELSE <<>>
              IN  [found |-> g.found, trace |-> d \o g.trace]

\* _get_base_options that records the custom cookie file in the cleanup slot
GetBaseOptionsOwnsCustom(cookies, use_fallback_cookies, env, fresh, oldTemp) ==
    IF ~cookies.use_browser_cookies /\ cookies.custom_cookies_file # None
    THEN [cookiefile |-> cookies.custom_cookies_file, cookiesfrombrowser |-> None,
          temp |-> cookies.custom_cookies_file, created |-> {}, trace |-> <<>>]
    ELSE [cookiefile |-> None, cookiesfrombrowser |-> None,
          temp |-> oldTemp, created |-> {}, trace |-> <<>>]

\* _get_base_options that names the browser also when the extraction gave a
\* cookie file
GetBaseOptionsBothSources(cookies, use_fallback_cookies, env, fresh, oldTemp) ==
    IF ~cookies.use_browser_cookies /\ cookies.custom_cookies_file # None
    THEN [cookiefile |-> cookies.custom_cookies_file, cookiesfrombrowser |-> None,
          temp |-> oldTemp, created |-> {}, trace |-> <<>>]
    ELSE IF cookies.use_browser_cookies
    THEN LET r == GetBrowserCookiesFallback(cookies.preferred_browser, env)
         IN  IF (cookies.preferred_browser = "firefox" \/ use_fallback_cookies) /\ r.found
             THEN [cookiefile |-> fresh, cookiesfrombrowser |-> cookies.preferred_browser,
                   temp |-> fresh, created |-> {fresh}, trace |-> r.trace]
             ELSE [cookiefile |-> None, cookiesfrombrowser |-> cookies.preferred_browser,
                   temp |-> oldTemp, created |-> {}, trace |-> <<>>]
    ELSE [cookiefile |-> None, cookiesfrombrowser |-> None,
          temp |-> oldTemp, created |-> {}, trace |-> <<>>]

(***************************************************************************)
(* _get_base_options(use_fallback_cookies).  cookies is settings.cookies,  *)
(* fresh the name the next temporary file gets.  Returns the credential    *)
(* part of the options, the new value of _temp_cookie_file (temp, given    *)
(* the old one), the file created and the sources attempted.               *)
(***************************************************************************)
GetBaseOptions(cookies, use_fallback_cookies, env, fresh, oldTemp) ==
    IF ~cookies.use_browser_cookies /\ cookies.custom_cookies_file # None
    THEN [cookiefile |-> cookies.custom_cookies_file, cookiesfrombrowser |-> None,
          temp |-> oldTemp, created |-> {}, trace |-> <<>>]
    ELSE IF cookies.use_browser_cookies
    THEN IF cookies.preferred_browser = "firefox" \/ use_fallback_cookies
         THEN LET r == GetBrowserCookiesFallback(cookies.preferred_browser, env)
              IN  IF r.found
                  THEN [cookiefile |-> fresh, cookiesfrombrowser |-> None,
                        temp |-> fresh, created |-> {fresh}, trace |-> r.trace]
                  ELSE [cookiefile |-> None,
                        cookiesfrombrowser |->
                            IF cookies.preferred_browser # "firefox"
                            THEN cookies.preferred_browser ELSE None,
                        temp |-> oldTemp, created |-> {}, trace |-> r.trace]
         ELSE [cookiefile |-> None, cookiesfrombrowser |-> cookies.preferred_browser,
               temp |-> oldTemp, created |-> {}, trace |-> <<>>]
    ELSE [cookiefile |-> None, cookiesfrombrowser |-> None,
          temp |-> oldTemp, created |-> {}, trace |-> <<>>]

(***************************************************************************)
(* Format descriptors as the metadata query returns them.  abr_key tells   *)
(* whether the descriptor has the key 'abr' at all ("absent"), has it with *)
(* the value None ("none") or with a number ("num", the number in abr).    *)
(***************************************************************************)
FormatIds == <<"f1", "f2", "f3", "f4">>
AbrValues == {96, 160}
AbrFields ==
    {[abr_key |-> "absent", abr |-> 0], [abr_key |-> "none", abr |-> 0]}
        \cup {[abr_key |-> "num", abr |-> n] : n \in AbrValues}

Descriptor(id, acodec, vcodec, ext, note, a) ==
    [format_id |-> id, acodec |-> acodec, vcodec |-> vcodec, ext |-> ext,
     format_note |-> note, abr_key |-> a.abr_key, abr |-> a.abr]

\* x.get('abr', 0): the default applies only when the key is missing
AbrSortKey(f) == IF f.abr_key = "absent" THEN 0 ELSE f.abr

\* list.sort compares every element of a list of two or more with another
\* one; a comparison with None raises TypeError
SortRaises(fs) == Len(fs) >= 2 /\ \E i \in 1..Len(fs) : fs[i].abr_key = "none"

\* insert f into the descending list s behind every element with a key
\* greater than or equal to its own (the sort is stable)
RECURSIVE InsertDesc(_, _)
InsertDesc(f, s) ==
    IF s = <<>> THEN <<f>>
    ELSE IF AbrSortKey(Head(s)) >= AbrSortKey(f)
         THEN <<Head(s)>> \o InsertDesc(f, Tail(s))
         ELSE <<f>> \o s

\* fs.sort(key=lambda x: x.get('abr', 0), reverse=True)
RECURSIVE SortByAbrDesc(_)
SortByAbrDesc(fs) ==
    IF fs = <<>> THEN <<>>
    ELSE InsertDesc(fs[Len(fs)], SortByAbrDesc(SubSeq(fs, 1, Len(fs) - 1)))

IsOpusAudio(f) == f.acodec = "opus" /\ f.vcodec = "none"
IsWebmAudio(f) == f.ext = "webm" /\ f.vcodec = "none"
IsAudioOnly(f) == f.vcodec = "none"

\* one tier: sort the candidates and take the first
PickBest(cands) ==
    IF SortRaises(cands) THEN [raised |-> TRUE, best |-> None]
    ELSE [raised |-> FALSE, best |-> SortByAbrDesc(cands)[1].format_id]

(***************************************************************************)
(* The selection in download(): opus audio, else webm audio, else any      *)
(* audio-only format, else nothing.  raised: the sort raised TypeError.    *)
(***************************************************************************)
SelectBestFormat(formats) ==
    LET opus_formats == SelectSeq(formats, IsOpusAudio)
        webm_audio == SelectSeq(formats, IsWebmAudio)
        audio_only == SelectSeq(formats, IsAudioOnly)
    IN  IF opus_formats # <<>> THEN PickBest(opus_formats)
        ELSE IF webm_audio # <<>> THEN PickBest(webm_audio)
        ELSE IF audio_only # <<>> THEN PickBest(audio_only)
        ELSE [raised |-> FALSE, best |-> None]

FallbackSelector ==
    "bestaudio[acodec=opus]/bestaudio[ext=webm]/bestaudio[ext=m4a]/bestaudio/best"
AdvancedSelector ==
    "bestaudio[acodec=opus]/bestaudio[ext=webm]/bestaudio[ext=m4a]/bestaudio/best[height<=720]/best"

(***************************************************************************)
(* Failure messages, as sequences of words, and the keyword test of the    *)
(* DownloadError handler (on the lower-cased message).                     *)
(***************************************************************************)
Lower(w) ==
    CASE w = "Sign" -> "sign"
      [] w = "Private" -> "private"
      [] w = "Video" -> "video"
      [] w = "LOGIN" -> "login"
      [] w = "HTTP" -> "http"
      [] w = "Error" -> "error"
      [] w = "Firefox" -> "firefox"
      [] w = "EDGE" -> "edge"
      [] w = "/Playlist" -> "/playlist"
      [] w = "Storyboard" -> "storyboard"
      [] OTHER -> w

LowerAll(msg) == [i \in 1..Len(msg) |-> Lower(msg[i])]
\* the test of list_formats for an image or storyboard descriptor:
\* ext == 'mhtml' or format_note.lower().startswith('storyboard')
IsPlaceholder(f) == f.ext = "mhtml" \/ Lower(f.format_note) = "storyboard"

Keywords == {<<"cookies">>, <<"login">>, <<"sign", "in">>, <<"private">>, <<"unavailable">>}

Contains(msg, kw) ==
    \E i \in 1..Len(msg) :
        i + Len(kw) - 1 <= Len(msg) /\ SubSeq(msg, i, i + Len(kw) - 1) = kw

IsCookieRelated(msg) == \E kw \in Keywords : Contains(LowerAll(msg), kw)

ErrorMessages ==
    {<<"Sign", "in", "to", "confirm">>, <<"Video", "unavailable">>,
     <<"Private", "video">>, <<"LOGIN", "required">>, <<"use", "cookies">>,
     <<"HTTP", "Error", "403">>, <<"Sign", "up", "in", "time">>}

(***************************************************************************)
(* _clean_youtube_url.  A URL is its network location, its query as the    *)
(* list of the segments between '&' (name, whether an '=' follows, value,  *)
(* all as written, percent-encoded) and whether it has a '?' with nothing  *)
(* behind it; scheme, path and fragment pass through the function.         *)
(***************************************************************************)
MaxParams == 3

\* urllib.parse.unquote after '+' is replaced by ' '
Unquote(raw) ==
    CASE raw = "%20" -> " "
      [] raw = "+" -> " "
      [] raw = "%2541" -> "%41"
      [] raw = "%41" -> "A"
      [] OTHER -> raw

\* urlencode that writes names and values unquoted
QuoteNothing(text) == text

\* urllib.parse.quote_plus
QuotePlus(text) ==
    CASE text = " " -> "+"
      [] text = "%41" -> "%2541"
      [] OTHER -> text

\* parse_qsl(query): empty segments, segments without '=' and segments
\* with a blank value are skipped; names and values are decoded
RECURSIVE ParseQsl(_)
ParseQsl(query) ==
    IF query = <<>> THEN <<>>
    ELSE LET seg == Head(query)
         IN  IF seg.has_eq /\ seg.value # ""
             THEN <<[name |-> Unquote(seg.name), value |-> Unquote(seg.value)]>>
                      \o ParseQsl(Tail(query))
             ELSE ParseQsl(Tail(query))

\* the keys of the dictionary parse_qs builds, in insertion order
RECURSIVE DictKeys(_, _)
DictKeys(pairs, seen) ==
    IF pairs = <<>> THEN <<>>
    ELSE IF Head(pairs).name \in seen THEN DictKeys(Tail(pairs), seen)
         ELSE <<Head(pairs).name>> \o DictKeys(Tail(pairs), seen \cup {Head(pairs).name})

\* the list of values parse_qs collects under a key
RECURSIVE DictValues(_, _)
DictValues(pairs, key) ==
    IF pairs = <<>> THEN <<>>
    ELSE IF Head(pairs).name = key
         THEN <<Head(pairs).value>> \o DictValues(Tail(pairs), key)
         ELSE DictValues(Tail(pairs), key)

essential_params == {"v", "list", "t", "index", "pp"}

\* cleaned_params: the essential keys, each with the first of its values
RECURSIVE CleanedParams(_, _)
CleanedParams(keys, pairs) ==
    IF keys = <<>> THEN <<>>
    ELSE LET values == DictValues(pairs, Head(keys))
         IN  IF Head(keys) \in essential_params /\ values # <<>>
             THEN <<[name |-> Head(keys), value |-> values[1]]>>
                      \o CleanedParams(Tail(keys), pairs)
             ELSE CleanedParams(Tail(keys), pairs)

\* urlencode(cleaned_params)
Urlencode(params) ==
    [i \in 1..Len(params) |->
        [name |-> QuotePlus(params[i].name), has_eq |-> TRUE,
         value |-> QuotePlus(params[i].value)]]

\* 'youtube.com' in netloc or 'youtu.be' in netloc
IsYouTubeNetloc(netloc) == netloc \in {"www.youtube.com", "youtu.be"}

\* a cleaning that keeps the last value of a parameter instead of the first
CleanedQueryLast(query) ==
    LET pairs == ParseQsl(query)
        keys == DictKeys(pairs, {})
        last == [i \in 1..Len(keys) |->
                    [name |-> keys[i],
                     value |-> DictValues(pairs, keys[i])[Len(DictValues(pairs, keys[i]))]]]
    IN  Urlencode(SelectSeq(last, LAMBDA q : q.name \in essential_params))

\* the query of the cleaned URL
CleanedQuery(query) ==
    LET pairs == ParseQsl(query)
    IN  Urlencode(CleanedParams(DictKeys(pairs, {}), pairs))

CleanYoutubeUrl(u) ==
    IF ~IsYouTubeNetloc(u.netloc) THEN u
    ELSE [u EXCEPT !.query = CleanedQuery(u.query), !.bare_q = FALSE]

\* a skip_analysis that looks for 'list=' only
SkipAnalysisListOnly(u) ==
    \E i \in 1..Len(u.query) : u.query[i].has_eq /\ u.query[i].name = "list"

\* skip_analysis of download(): 'list=' in url or 'playlist' in url.lower(),
\* on the cleaned URL as urlunparse writes it (path, then the query)
SkipAnalysis(u) ==
    \/ \E i \in 1..Len(u.query) : u.query[i].has_eq /\ u.query[i].name = "list"
    \/ Lower(u.path) = "/playlist"

(***************************************************************************)
(* One run of download().                                                  *)
(***************************************************************************)
VARIABLES
    settings,          \* the JSON object of settings.json, then self.settings
    list_formats_flag, \* '--list-formats' in sys.argv
    playlist_url,      \* skip_analysis: the cleaned URL has 'list=' or 'playlist'
    pc,                \* where download() is
    ydl_opts,          \* the options of the primary attempt
    ydl_opts_advanced, \* the options of the escalated attempt
    temp_cookie_file,  \* self._temp_cookie_file
    disk,              \* the cookie files that exist
    owned,             \* the temporary cookie files this run has materialized
    best_format,       \* the exact format identifier chosen by the probe
    probe,             \* how the probe ended
    alarm,             \* time units until SIGALRM, 0 when no alarm is pending
    handler,           \* the installed SIGALRM handler
    transferLog,       \* the options of every ydl.download() call, in order
    listLog,           \* the options and the result of every query of list_formats, in order
    resolveLog,        \* every _get_base_options() call: flag and sources tried
    errorLog,          \* the message of every ydl.download() call that raised
    outcome,           \* how download() ended
    settings_status,   \* settings.json: "ok", "missing" or "invalid" (no JSON)
    argv_url,          \* sys.argv[1:] without the flag: empty, or the URL
    exit_code,         \* the status the process exits with
    choice,            \* what input() gave at the playlist question
    warning,           \* the name in the "Invalid preferred_browser" warning
    call,              \* which function is called on its own, "none" in a run
    url,               \* the argument of a _clean_youtube_url call
    cleaned_url,       \* what the call returned, then what a call on that returned
    audio_quality,     \* settings['audio_quality'] of a _get_opus_bitrate call
    opus_bitrate,      \* what the call returned
    formats,           \* the descriptor list under selection
    selection,         \* what the selection gave
    resolve_input,     \* the settings, flag and environment of a _get_base_options call
    resolved,          \* what the call returned
    cookie_store,      \* the cookies a cookie file is written from, and by which function
    cookie_rows,       \* the rows written to the cookie file
    cookie_file,       \* the path the writer returned, None when it returned None
    cookie_temps       \* the temporary files of the writer that are on the disk

vars ==
    <<settings, list_formats_flag, playlist_url, pc, ydl_opts, ydl_opts_advanced,
      temp_cookie_file, disk, owned, best_format, probe, alarm, handler,
      transferLog, listLog, resolveLog, errorLog, outcome,
      settings_status, argv_url, exit_code, choice, warning,
      call, url, cleaned_url, audio_quality, opus_bitrate, formats, selection,
      resolve_input, resolved, cookie_store, cookie_rows,
                   cookie_file, cookie_temps>>

\* the variables of one download() run
runVars ==
    <<settings, list_formats_flag, playlist_url, pc, ydl_opts, ydl_opts_advanced,
      temp_cookie_file, disk, owned, best_format, probe, alarm, handler,
      transferLog, listLog, resolveLog, errorLog, outcome,
      settings_status, argv_url, exit_code, choice, warning>>

\* the variables main() and the playlist question set
mainVars == <<settings_status, argv_url, exit_code, choice, warning>>

\* the variables of the calls of the pure functions
callVars ==
    <<call, url, cleaned_url, audio_quality, opus_bitrate, formats, selection,
      resolve_input, resolved, cookie_store, cookie_rows,
                   cookie_file, cookie_temps>>

NoUrlCall == url = None /\ cleaned_url = <<>>
NoBitrateCall == audio_quality = None /\ opus_bitrate = None
NoSelectCall == formats = <<>> /\ selection = None
NoResolveCall == resolve_input = None /\ resolved = None
NoCookieCall ==
    /\ cookie_store = None /\ cookie_rows = <<>>
    /\ cookie_file = None /\ cookie_temps = {}

ProbeDeadline == 30

CookieSettings ==
    [use_browser_cookies : BOOLEAN,
     custom_cookies_file : {None, CustomPath},
     preferred_browser : BrowserSet]

NoOptions ==
    [cookiefile |-> None, cookiesfrombrowser |-> None, format |-> None,
     noplaylist |-> TRUE]

(***************************************************************************)
(* _load_settings.  The JSON object of settings.json: whether it has the   *)
(* key 'cookies', whether that has the key 'preferred_browser', and the    *)
(* values under 'cookies' (None is JSON null).  The function fills in and  *)
(* normalises this object in place and returns it.                         *)
(***************************************************************************)
valid_browsers == {"chrome", "firefox", "edge"}
WrittenBrowsers == {"chrome", "firefox", "edge", "Firefox", "EDGE", "safari"}

DefaultCookies ==
    [use_browser_cookies |-> TRUE, custom_cookies_file |-> None,
     preferred_browser |-> "chrome"]

JsonObjects ==
    {[has_cookies |-> FALSE, has_preferred_browser |-> FALSE,
      cookies |-> DefaultCookies]}
    \cup {[has_cookies |-> TRUE, has_preferred_browser |-> FALSE,
           cookies |-> [use_browser_cookies |-> u, custom_cookies_file |-> c,
                        preferred_browser |-> "chrome"]] :
             u \in BOOLEAN, c \in {None, CustomPath}}
    \cup {[has_cookies |-> TRUE, has_preferred_browser |-> TRUE,
           cookies |-> [use_browser_cookies |-> u, custom_cookies_file |-> c,
                        preferred_browser |-> b]] :
             u \in BOOLEAN, c \in {None, CustomPath}, b \in WrittenBrowsers \cup {None}}

\* the preferred_browser the validation starts from: the defaults are filled in
FilledBrowser(json) ==
    IF json.has_cookies /\ json.has_preferred_browser
    THEN json.cookies.preferred_browser ELSE "chrome"

\* None.lower() raises AttributeError, which _load_settings does not catch
LoadSettingsRaises(json) == FilledBrowser(json) = None

\* _load_settings that stores a recognised name as it is written
LoadSettingsAsWritten(json) ==
    [has_cookies |-> TRUE, has_preferred_browser |-> TRUE,
     cookies |->
        [(IF json.has_cookies THEN json.cookies ELSE DefaultCookies)
            EXCEPT !.preferred_browser =
                IF Lower(FilledBrowser(json)) \notin valid_browsers THEN "chrome"
                ELSE FilledBrowser(json)]]

\* what _load_settings returns for a JSON object it does not raise on
LoadSettings(json) ==
    [has_cookies |-> TRUE, has_preferred_browser |-> TRUE,
     cookies |->
        [(IF json.has_cookies THEN json.cookies ELSE DefaultCookies)
            EXCEPT !.preferred_browser =
                IF Lower(FilledBrowser(json)) \notin valid_browsers THEN "chrome"
                ELSE Lower(FilledBrowser(json))]]

\* the state download() starts in, but for where the process is
DownloadStart ==
    /\ ydl_opts = NoOptions
    /\ ydl_opts_advanced = NoOptions
    /\ temp_cookie_file = None
    /\ owned = {}
    /\ best_format = None
    /\ probe = "none"
    /\ alarm = 0
    /\ handler = "SIG_DFL"
    /\ transferLog = <<>>
    /\ listLog = <<>>
    /\ resolveLog = <<>>
    /\ errorLog = <<>>
    /\ outcome = "running"
    /\ playlist_url = FALSE
    /\ exit_code = 0
    /\ choice = None
    /\ warning = None

RunStart == pc = "start" /\ DownloadStart

\* the URLs of the runs: a video of a playlist, a video with a blank list
\* parameter (cleaned to the URL of the video alone), a playlist page
Param(name, value) == [name |-> name, has_eq |-> TRUE, value |-> value]
RunUrl(path, query) ==
    [netloc |-> "www.youtube.com", path |-> path, query |-> query, bare_q |-> FALSE]
RunUrls ==
    {RunUrl("/watch", <<Param("v", "A"), Param("list", "A")>>),
     RunUrl("/watch", <<Param("v", "A"), Param("list", "")>>),
     RunUrl("/Playlist", <<Param("si", "A")>>)}

\* the process starts: main() has not looked at sys.argv yet
Init ==
    /\ pc = "main"
    /\ settings_status \in {"ok", "missing", "invalid"}
    /\ settings \in JsonObjects
    /\ settings_status # "ok" => ~settings.has_cookies
    /\ argv_url \in {<<>>} \cup {<<u>> : u \in RunUrls}
    /\ list_formats_flag \in BOOLEAN
    /\ argv_url = <<>> => ~list_formats_flag
    /\ disk \in {{}, {CustomPath}}
    /\ DownloadStart
    /\ call = "none"
    /\ NoUrlCall /\ NoBitrateCall /\ NoSelectCall /\ NoResolveCall /\ NoCookieCall

\* no run: the state of the run variables while a function is called on its own
NoRun ==
    /\ settings = [cookies |-> [use_browser_cookies |-> FALSE,
                                custom_cookies_file |-> None,
                                preferred_browser |-> "chrome"]]
    /\ settings_status = "ok"
    /\ argv_url = <<>>
    /\ list_formats_flag = FALSE
    /\ disk = {}
    /\ RunStart

\* the name tempfile gives the next temporary cookie file
FreshTemp(made) == TempNames[Cardinality(made) + 1]

\* the finally block of download(): the file and the slot after it
CleanupDisk(temp, files) ==
    IF temp # None /\ temp \in files THEN files \ {temp} ELSE files
CleanupSlot(temp, files) ==
    IF temp # None /\ temp \in files THEN None ELSE temp

\* download() returns through its finally block
Finish(result, temp, files) ==
    /\ pc' = "done"
    /\ outcome' = result
    /\ disk' = CleanupDisk(temp, files)
    /\ temp_cookie_file' = CleanupSlot(temp, files)

\* one _get_base_options() call and its effects on the slot and the disk
Resolve(escalate, env) ==
    GetBaseOptions(settings.cookies, escalate, env, FreshTemp(owned), temp_cookie_file)

LogResolve(escalate, r) ==
    resolveLog' = Append(resolveLog, [escalate |-> escalate, trace |-> r.trace,
                                      cookiefile |-> r.cookiefile])

\* the process ends with sys.exit(1) or an uncaught exception
Exit(how) ==
    /\ pc' = "exited"
    /\ exit_code' = 1
    /\ outcome' = how

(***************************************************************************)
(* main() without a URL argument: the usage message and sys.exit(1).       *)
(***************************************************************************)
MainUsage ==
    /\ UNCHANGED callVars
    /\ pc = "main" /\ argv_url = <<>>
    /\ Exit("Usage")
    /\ UNCHANGED <<settings, list_formats_flag, playlist_url, settings_status,
                   argv_url, choice, warning, ydl_opts, ydl_opts_advanced, temp_cookie_file,
                   disk, owned, best_format, probe, alarm, handler, transferLog, listLog,
                   resolveLog, errorLog>>

(***************************************************************************)
(* main() with a URL argument: YouTubeAudioDownloader() loads the settings *)
(* (sys.exit(1) when the file is missing or no JSON, an uncaught           *)
(* AttributeError when preferred_browser is null), then download(url) is   *)
(* called.                                                                 *)
(***************************************************************************)
MainConstruct ==
    /\ UNCHANGED callVars
    /\ pc = "main" /\ argv_url # <<>>
    /\ IF settings_status # "ok"
       THEN Exit("ConfigError") /\ UNCHANGED <<settings, warning>>
       ELSE IF LoadSettingsRaises(settings)
       THEN Exit("Crashed") /\ UNCHANGED <<settings, warning>>
       ELSE /\ settings' = LoadSettings(settings)
            /\ warning' = IF Lower(FilledBrowser(settings)) \notin valid_browsers
                          THEN FilledBrowser(settings) ELSE None
            /\ pc' = "start"
            /\ UNCHANGED <<exit_code, outcome>>
    /\ UNCHANGED <<list_formats_flag, playlist_url, settings_status,
                   argv_url, choice, ydl_opts, ydl_opts_advanced, temp_cookie_file,
                   disk, owned, best_format, probe, alarm, handler, transferLog, listLog,
                   resolveLog, errorLog>>

(***************************************************************************)
(* download() with --list-formats: list_formats(url) resolves credentials  *)
(* and issues the first metadata query.                                    *)
(***************************************************************************)
StartList(env) ==
    /\ UNCHANGED callVars
    /\ pc = "start" /\ list_formats_flag
    /\ LET r == Resolve(FALSE, env)
       IN  /\ ydl_opts' = [NoOptions EXCEPT !.cookiefile = r.cookiefile,
                                            !.cookiesfrombrowser = r.cookiesfrombrowser]
           /\ temp_cookie_file' = r.temp
           /\ disk' = disk \cup r.created
           /\ owned' = owned \cup r.created
           /\ LogResolve(FALSE, r)
    /\ pc' = "list1"
    /\ UNCHANGED <<settings, list_formats_flag, playlist_url, mainVars, ydl_opts_advanced,
                   best_format, probe, alarm, handler, transferLog, listLog, errorLog, outcome>>

ListResults == {"formats", "empty", "images", "error_signature", "error_other"}

\* the first query failed in a way that is retried: the list holds only
\* images, or the message of the error has one of the three signatures
RetriesListing(res) == res \in {"images", "error_signature"}

\* fallback options that keep the credentials of the first query
FallbackListOptionsKeepCookies(opts) ==
    [opts EXCEPT !.format = "bestaudio/best"]

\* fallback_opts: a copy of ydl_opts with the generic selector and without
\* cookiefile and cookiesfrombrowser
FallbackListOptions(opts) ==
    [opts EXCEPT !.format = "bestaudio/best", !.cookiefile = None,
                 !.cookiesfrombrowser = None]

\* the first query of list_formats returns or raises
List1Return(res) ==
    /\ UNCHANGED callVars
    /\ pc = "list1"
    /\ listLog' = Append(listLog, [opts |-> ydl_opts, result |-> res])
    /\ IF RetriesListing(res)
       THEN /\ pc' = "list2"
            /\ ydl_opts_advanced' = FallbackListOptions(ydl_opts)
            /\ UNCHANGED <<disk, temp_cookie_file, outcome>>
       ELSE /\ Finish("Listed", temp_cookie_file, disk)
            /\ UNCHANGED ydl_opts_advanced
    /\ UNCHANGED <<settings, list_formats_flag, playlist_url, mainVars, ydl_opts, owned,
                   best_format, probe, alarm, handler, transferLog, resolveLog, errorLog>>

\* the fallback query of list_formats returns or raises
List2Return(res) ==
    /\ UNCHANGED callVars
    /\ pc = "list2"
    /\ listLog' = Append(listLog, [opts |-> ydl_opts_advanced, result |-> res])
    /\ Finish("Listed", temp_cookie_file, disk)
    /\ UNCHANGED <<settings, list_formats_flag, playlist_url, mainVars, ydl_opts,
                   ydl_opts_advanced, owned, best_format, probe, alarm, handler,
                   transferLog, resolveLog, errorLog>>

\* options that take the exact identifier as it is, also when there is none
TransferOptionsNoFallback(opts, best) ==
    [opts EXCEPT !.format = best, !.noplaylist = TRUE]

\* ydl_opts.update({...}) after the probe phase: the selector is the exact
\* identifier when there is one, the fallback expression otherwise
TransferOptions(opts, best) ==
    [opts EXCEPT !.format = IF best # None THEN best ELSE FallbackSelector,
                 !.noplaylist = TRUE]

(***************************************************************************)
(* download() without --list-formats: resolve credentials, then either     *)
(* skip the probe (playlist URL) or arm the alarm and start the probe.     *)
(***************************************************************************)
StartDownload(env) ==
    /\ UNCHANGED callVars
    /\ pc = "start" /\ ~list_formats_flag
    /\ LET r == Resolve(FALSE, env)
           base == [NoOptions EXCEPT !.cookiefile = r.cookiefile,
                                     !.cookiesfrombrowser = r.cookiesfrombrowser]
           skip_analysis == SkipAnalysis(CleanYoutubeUrl(argv_url[1]))
       IN  /\ temp_cookie_file' = r.temp
           /\ disk' = disk \cup r.created
           /\ owned' = owned \cup r.created
           /\ LogResolve(FALSE, r)
           /\ playlist_url' = skip_analysis
           /\ IF skip_analysis
              THEN /\ probe' = "skipped"
                   /\ ydl_opts' = TransferOptions(base, None)
                   /\ pc' = "check"
                   /\ UNCHANGED <<alarm, handler>>
              ELSE /\ probe' = "pending"
                   /\ ydl_opts' = base
                   /\ pc' = "probe"
                   /\ alarm' = ProbeDeadline
                   /\ handler' = "timeout_handler"
    /\ UNCHANGED <<settings, list_formats_flag, mainVars, ydl_opts_advanced,
                   best_format, transferLog, listLog, errorLog, outcome>>

\* an end of the probe that leaves the alarm pending and the handler installed
EndProbeKeepsAlarm(how, best) ==
    /\ UNCHANGED callVars
    /\ probe' = how
    /\ best_format' = best
    /\ ydl_opts' = TransferOptions(ydl_opts, best)
    /\ pc' = "check"
    /\ UNCHANGED <<settings, list_formats_flag, playlist_url, mainVars, ydl_opts_advanced,
                   temp_cookie_file, disk, owned, transferLog, listLog, resolveLog, errorLog,
                   outcome, alarm, handler>>

\* the finally of the probe (alarm(0), old handler back), then the options.
\* The statements between the return of extract_info and alarm(0) take no
\* time: SIGALRM arrives while the query is out or not at all.
EndProbe(how, best) ==
    /\ UNCHANGED callVars
    /\ probe' = how
    /\ best_format' = best
    /\ alarm' = 0
    /\ handler' = "SIG_DFL"
    /\ ydl_opts' = TransferOptions(ydl_opts, best)
    /\ pc' = "check"
    /\ UNCHANGED <<settings, list_formats_flag, playlist_url, mainVars, ydl_opts_advanced,
                   temp_cookie_file, disk, owned, transferLog, listLog, resolveLog, errorLog, outcome>>

\* a time unit passes while the probe is out
ProbeTick ==
    /\ UNCHANGED callVars
    /\ pc = "probe" /\ alarm > 1
    /\ alarm' = alarm - 1
    /\ UNCHANGED <<settings, list_formats_flag, playlist_url, mainVars, pc, ydl_opts,
                   ydl_opts_advanced, temp_cookie_file, disk, owned, best_format,
                   probe, handler, transferLog, listLog, resolveLog, errorLog, outcome>>

\* a timeout_handler that returns instead of raising: the probe stays out
ProbeTimeoutIgnored ==
    /\ pc = "probe" /\ alarm = 1
    /\ alarm' = 0
    /\ UNCHANGED <<settings, list_formats_flag, playlist_url, mainVars, pc, ydl_opts,
                   ydl_opts_advanced, temp_cookie_file, disk, owned, best_format,
                   probe, handler, transferLog, listLog, resolveLog, errorLog, outcome>>
    /\ UNCHANGED callVars

\* the deadline passes: SIGALRM, timeout_handler raises TimeoutError
ProbeTimeout ==
    /\ pc = "probe" /\ alarm = 1
    /\ EndProbe("timeout", None)

ProbeAcodecs == {"opus", "aac"}
ProbeVcodecs == {"none", "avc1"}
ProbeAbrs == {[abr_key |-> "none", abr |-> 0], [abr_key |-> "num", abr |-> 160]}

\* the descriptor lists the probe of a run may get: ids by position
ProbeLists ==
    UNION {[1..n -> [acodec : ProbeAcodecs, vcodec : ProbeVcodecs,
                     ext : {"webm"}, a : ProbeAbrs]] : n \in 0..MaxProbeFormats}

WithIds(l) ==
    [i \in 1..Len(l) |-> Descriptor(FormatIds[i], l[i].acodec, l[i].vcodec, l[i].ext, "", l[i].a)]

\* extract_info returns in time; the selection may raise in the sort
ProbeReturn(fs) ==
    /\ pc = "probe"
    /\ LET sel == SelectBestFormat(fs)
       IN  IF sel.raised THEN EndProbe("sort_error", None)
           ELSE EndProbe("returned", sel.best)

\* extract_info (or the YoutubeDL constructor) raises in time
ProbeError ==
    /\ pc = "probe"
    /\ EndProbe("error", None)

\* the playlist check: extract_info raises ("none"), or reports a single
\* video or a playlist
CheckReturn(info) ==
    /\ UNCHANGED callVars
    /\ pc = "check"
    /\ pc' = IF info = "playlist" THEN "ask" ELSE "transfer"
    /\ UNCHANGED <<settings, list_formats_flag, playlist_url, mainVars, ydl_opts,
                   ydl_opts_advanced, temp_cookie_file, disk, owned, best_format,
                   probe, alarm, handler, transferLog, listLog, resolveLog, errorLog, outcome>>

\* what input() gives: a line, or EOFError or KeyboardInterrupt raised
Lines == {"1", " 2 ", ""}
Interrupts == {"EOFError", "KeyboardInterrupt"}
Choices == Lines \cup Interrupts

\* str.strip
Strip(line) == IF line = " 2 " THEN "2" ELSE line

\* the playlist question with every answer but "2" keeping the whole playlist
AnswerKeepsPlaylist(given) ==
    /\ UNCHANGED callVars
    /\ pc = "ask"
    /\ choice' = IF given \in Interrupts THEN given ELSE Strip(given)
    /\ ydl_opts' = [ydl_opts EXCEPT !.noplaylist = (given = "1")]
    /\ pc' = "transfer"
    /\ UNCHANGED <<settings, list_formats_flag, playlist_url, settings_status,
                   argv_url, exit_code, warning, ydl_opts_advanced,
                   temp_cookie_file, disk, owned, best_format, probe, alarm,
                   handler, transferLog, listLog, resolveLog, errorLog, outcome>>

\* the playlist question: input().strip() is the choice, "2" takes the whole
\* playlist, every other answer and an interrupt take the first video
Answer(given) ==
    /\ UNCHANGED callVars
    /\ pc = "ask"
    /\ choice' = IF given \in Interrupts THEN given ELSE Strip(given)
    /\ ydl_opts' = [ydl_opts EXCEPT
                       !.noplaylist = (given \in Interrupts \/ Strip(given) # "2")]
    /\ pc' = "transfer"
    /\ UNCHANGED <<settings, list_formats_flag, playlist_url, settings_status,
                   argv_url, exit_code, warning, ydl_opts_advanced,
                   temp_cookie_file, disk, owned, best_format, probe, alarm,
                   handler, transferLog, listLog, resolveLog, errorLog, outcome>>

\* a YoutubeDL constructor outside the inner try blocks raises an error that
\* is no DownloadError: "Unexpected error", no transfer is made
UnexpectedError ==
    /\ UNCHANGED callVars
    /\ pc \in {"check", "transfer"}
    /\ Finish("Failed", temp_cookie_file, disk)
    /\ UNCHANGED <<settings, list_formats_flag, playlist_url, mainVars, ydl_opts,
                   ydl_opts_advanced, owned, best_format, probe, alarm, handler,
                   transferLog, listLog, resolveLog, errorLog>>

\* ydl.download([url]) of the primary attempt returns
TransferOk ==
    /\ UNCHANGED callVars
    /\ UNCHANGED errorLog
    /\ pc = "transfer"
    /\ UNCHANGED listLog
    /\ transferLog' = Append(transferLog, ydl_opts)
    /\ Finish("Succeeded", temp_cookie_file, disk)
    /\ UNCHANGED <<settings, list_formats_flag, playlist_url, mainVars, ydl_opts,
                   ydl_opts_advanced, owned, best_format, probe, alarm, handler,
                   resolveLog>>

\* ydl.download([url]) of the primary attempt raises an error that is no
\* DownloadError
TransferException(msg) ==
    /\ UNCHANGED callVars
    /\ pc = "transfer"
    /\ UNCHANGED listLog
    /\ transferLog' = Append(transferLog, ydl_opts)
    /\ errorLog' = Append(errorLog, msg)
    /\ Finish("Failed", temp_cookie_file, disk)
    /\ UNCHANGED <<settings, list_formats_flag, playlist_url, mainVars, ydl_opts,
                   ydl_opts_advanced, owned, best_format, probe, alarm, handler,
                   resolveLog>>

\* the DownloadError messages of the runs
RunMessages ==
    {<<"Sign", "in", "to", "confirm">>, <<"Video", "unavailable">>,
     <<"HTTP", "Error", "403">>}

\* a DownloadError handler that escalates whatever the message is
ShouldEscalateAlways(msg) == TRUE

\* the escalation test of the DownloadError handler
ShouldEscalate(msg) == IsCookieRelated(msg)

\* escalated options that keep the selector of the primary attempt
EscalatedOptionsPrimarySelector(r) ==
    [cookiefile |-> r.cookiefile, cookiesfrombrowser |-> r.cookiesfrombrowser,
     format |-> ydl_opts.format, noplaylist |-> TRUE]

\* ydl_opts_advanced: the options of the escalated resolution r, updated
\* with the broadened selector and 'noplaylist': True
EscalatedOptions(r) ==
    [cookiefile |-> r.cookiefile, cookiesfrombrowser |-> r.cookiesfrombrowser,
     format |-> AdvancedSelector, noplaylist |-> TRUE]

\* ydl.download([url]) of the primary attempt raises DownloadError(msg):
\* escalate (resolve again with use_fallback_cookies=True) or give up
TransferDownloadError(msg, env) ==
    /\ UNCHANGED callVars
    /\ pc = "transfer"
    /\ UNCHANGED listLog
    /\ transferLog' = Append(transferLog, ydl_opts)
    /\ errorLog' = Append(errorLog, msg)
    /\ IF ShouldEscalate(msg)
       THEN LET r == Resolve(TRUE, env)
            IN  /\ ydl_opts_advanced' = EscalatedOptions(r)
                /\ temp_cookie_file' = r.temp
                /\ disk' = disk \cup r.created
                /\ owned' = owned \cup r.created
                /\ LogResolve(TRUE, r)
                /\ pc' = "retry"
                /\ UNCHANGED outcome
       ELSE /\ Finish("Failed", temp_cookie_file, disk)
            /\ UNCHANGED <<ydl_opts_advanced, owned, resolveLog>>
    /\ UNCHANGED <<settings, list_formats_flag, playlist_url, mainVars, ydl_opts,
                   best_format, probe, alarm, handler>>

\* ydl.download([url]) of the primary attempt raises DownloadError(msg) with
\* a keyword, the credentials are resolved again, and the escalated attempt
\* raises before its transfer starts (YoutubeDL(ydl_opts_advanced) raises):
\* 'except Exception as advanced_e' ends the run
EscalationSetupError(msg, env) ==
    /\ UNCHANGED callVars
    /\ pc = "transfer"
    /\ ShouldEscalate(msg)
    /\ UNCHANGED listLog
    /\ transferLog' = Append(transferLog, ydl_opts)
    /\ errorLog' = Append(errorLog, msg)
    /\ LET r == Resolve(TRUE, env)
       IN  /\ ydl_opts_advanced' = EscalatedOptions(r)
           /\ owned' = owned \cup r.created
           /\ LogResolve(TRUE, r)
           /\ Finish("Failed", r.temp, disk \cup r.created)
    /\ UNCHANGED <<settings, list_formats_flag, playlist_url, mainVars, ydl_opts,
                   best_format, probe, alarm, handler>>

\* an escalated attempt whose failure leads to one more attempt
AfterRetryAgain(res) ==
    /\ UNCHANGED listLog
    /\ transferLog' = Append(transferLog, ydl_opts_advanced)
    /\ errorLog' = IF res = <<"ok">> THEN errorLog ELSE Append(errorLog, res)
    /\ IF res = <<"ok">>
       THEN Finish("Succeeded", temp_cookie_file, disk)
       ELSE /\ pc' = "retry"
            /\ UNCHANGED <<outcome, disk, temp_cookie_file>>

\* what follows the escalated ydl.download([url]): download() returns when
\* it succeeded (res = <<"ok">>) and when it raised (res is the message)
AfterRetry(res) ==
    /\ transferLog' = Append(transferLog, ydl_opts_advanced)
    /\ errorLog' = IF res = <<"ok">> THEN errorLog ELSE Append(errorLog, res)
    /\ Finish(IF res = <<"ok">> THEN "Succeeded" ELSE "Failed", temp_cookie_file, disk)

\* the escalated ydl.download([url]) returns or raises
RetryReturn(res) ==
    /\ UNCHANGED callVars
    /\ pc = "retry"
    /\ AfterRetry(res)
    /\ UNCHANGED <<settings, list_formats_flag, playlist_url, mainVars, ydl_opts,
                   ydl_opts_advanced, owned, best_format, probe, alarm, handler,
                   resolveLog, listLog>>

Next ==
    \/ MainUsage
    \/ MainConstruct
    \/ \E env \in RunEnvs : StartList(env)
    \/ \E res \in ListResults : List1Return(res)
    \/ \E res \in ListResults : List2Return(res)
    \/ \E env \in RunEnvs : StartDownload(env)
    \/ ProbeTick
    \/ ProbeTimeout
    \/ \E l \in ProbeLists : ProbeReturn(WithIds(l))
    \/ ProbeError
    \/ \E info \in {"none", "video", "playlist"} : CheckReturn(info)
    \/ \E given \in Choices : Answer(given)
    \/ UnexpectedError
    \/ TransferOk
    \/ \E msg \in RunMessages : TransferException(msg)
    \/ \E msg \in RunMessages :
          \E env \in (IF ShouldEscalate(msg) THEN RunEnvs ELSE {NoLibraryEnv}) :
              TransferDownloadError(msg, env)
    \/ \E msg \in RunMessages : \E env \in RunEnvs : EscalationSetupError(msg, env)
    \/ \E res \in {<<"ok">>} \cup RunMessages : RetryReturn(res)

Spec == Init /\ [][Next]_vars

(***************************************************************************)
(* The run under the scheduling the code has: main() and download() go on  *)
(* by themselves, the kernel counts the alarm down and delivers SIGALRM,   *)
(* the terminal gives a line or the end of input, and the transfer calls   *)
(* return or raise.  Nothing makes the remote side answer a metadata       *)
(* query: the return of the probe, of the playlist check and of the        *)
(* listing queries has no fairness.                                        *)
(***************************************************************************)
TransferReturns ==
    \/ TransferOk
    \/ \E msg \in RunMessages : TransferException(msg)
    \/ \E msg \in RunMessages :
          \E env \in (IF ShouldEscalate(msg) THEN RunEnvs ELSE {NoLibraryEnv}) :
              TransferDownloadError(msg, env)
    \/ \E msg \in RunMessages : \E env \in RunEnvs : EscalationSetupError(msg, env)

\* the runs on a settings file without a cookies section and on one that
\* asks for the cookies of firefox, with no custom cookie file on the disk
InitLive ==
    /\ Init
    /\ settings \in
          {[has_cookies |-> FALSE, has_preferred_browser |-> FALSE,
            cookies |-> DefaultCookies],
           [has_cookies |-> TRUE, has_preferred_browser |-> TRUE,
            cookies |-> [use_browser_cookies |-> TRUE, custom_cookies_file |-> None,
                         preferred_browser |-> "firefox"]]}
    /\ disk = {}

SpecLive ==
    /\ InitLive
    /\ [][Next]_vars
    /\ WF_vars(MainUsage)
    /\ WF_vars(MainConstruct)
    /\ WF_vars(\E env \in RunEnvs : StartDownload(env))
    /\ WF_vars(ProbeTick)
    /\ WF_vars(ProbeTimeout)
    /\ WF_vars(\E given \in Choices : Answer(given))
    /\ WF_vars(TransferReturns)
    /\ WF_vars(\E res \in {<<"ok">>} \cup RunMessages : RetryReturn(res))

(***************************************************************************)
(* Properties of one download() run (specification Spec).                  *)
(***************************************************************************)
CustomFileUsable ==
    settings.cookies.custom_cookies_file # None
        /\ settings.cookies.custom_cookies_file \in disk

FirefoxPolicy ==
    settings.cookies.preferred_browser = "firefox" /\ settings.cookies.use_browser_cookies

\* C1: whenever the custom cookie path is set and names an existing file,
\* every credential resolution of the run (escalate false or true) yields
\* exactly that path as the cookie file, whatever use_browser_cookies is.
C1_CustomPathAlwaysResolved ==
    CustomFileUsable =>
        \A i \in 1..Len(resolveLog) :
            resolveLog[i].cookiefile = settings.cookies.custom_cookies_file

\* C2: when download() has ended, on whatever path, every temporary cookie
\* file that credential resolution materialized during the run is deleted.
C2_OwnedFilesDeletedAtEnd == pc = "done" => owned \cap disk = {}

\* C3: a custom cookie file is never in the owned-temp-path slot nor among
\* the files the run materialized, and no step of download() deletes it.
C3_CustomFileNeverOwnedNorDeleted ==
    /\ [](temp_cookie_file # CustomPath /\ CustomPath \notin owned)
    /\ [][(CustomPath \in disk) => (CustomPath \in disk')]_vars

\* C3 witness: a run that used the existing custom cookie file for a failed
\* transfer has ended and the file is still there.
C3_Witness ==
    /\ pc = "done" /\ outcome = "Failed"
    /\ CustomFileUsable
    /\ Len(transferLog) = 1
    /\ transferLog[1].cookiefile = CustomPath
    /\ CustomPath \in disk

BothAttemptsCookieFailed ==
    /\ Len(errorLog) = 2
    /\ IsCookieRelated(errorLog[1])
    /\ IsCookieRelated(errorLog[2])

\* C4: a run invokes the transfer at most twice; when the primary and the
\* escalated transfer both failed with a credential-related error, exactly
\* two attempts were made and the run has ended in Failed.
C4_AtMostTwoTransfers ==
    /\ Len(transferLog) <= 2
    /\ Len(errorLog) <= Len(transferLog)
    /\ BothAttemptsCookieFailed =>
           (Len(transferLog) = 2 /\ pc = "done" /\ outcome = "Failed")

\* C4 witness: both attempts of a run failed with a credential-related error.
C4_Witness == BothAttemptsCookieFailed /\ pc = "done"

C12_ExitCodeReflectsOutcome ==
    /\ (pc = "done" /\ outcome = "Succeeded") => exit_code = 0
    /\ (pc = "exited" /\ outcome = "ConfigError") => exit_code = 1
    /\ (pc = "done" /\ outcome = "Failed") => exit_code = 1

\* C13: at most one temporary cookie file that the run materialized exists
\* at any time (so a second one is never created while the first is still
\* there), and the cleanup slot never names a file that is already deleted.
C13_AtMostOneOwnedFile ==
    /\ Cardinality(owned \cap disk) <= 1
    /\ (temp_cookie_file # None /\ temp_cookie_file \in owned) =>
           temp_cookie_file \in disk

\* the message has one of the keywords cookies, login, sign in, private,
\* unavailable, in any letter case
MentionsKeyword(msg) ==
    \E i \in 1..Len(msg) :
        \/ Lower(msg[i]) \in {"cookies", "login", "private", "unavailable"}
        \/ (Lower(msg[i]) = "sign" /\ i < Len(msg) /\ Lower(msg[i + 1]) = "in")

\* C14: an escalated attempt (a second resolution, a second transfer) is made
\* only after a primary failure whose message has one of the keywords; after
\* a primary failure without a keyword the run has ended in Failed with
\* exactly one transfer attempt and no escalated resolution.
C14_EscalationOnlyOnKeyword ==
    /\ (Len(transferLog) = 2 \/ Len(resolveLog) = 2 \/ pc = "retry") =>
           (Len(errorLog) >= 1 /\ MentionsKeyword(errorLog[1]))
    /\ (Len(errorLog) >= 1 /\ ~MentionsKeyword(errorLog[1])) =>
           /\ pc = "done" /\ outcome = "Failed"
           /\ Len(transferLog) = 1 /\ Len(resolveLog) = 1

\* C14 witness: the primary transfer failed with "HTTP Error 403" and the run
\* ended in Failed after that one attempt.
C14_Witness ==
    /\ pc = "done" /\ outcome = "Failed"
    /\ errorLog = << <<"HTTP", "Error", "403">> >>
    /\ Len(transferLog) = 1

\* C15: when the playlist question ended in end of input or an interrupt,
\* every transfer of the run is made in first-item-only mode; a transfer in
\* entire-collection mode is made only after the answer "2".
C15_FirstItemUnlessAnswerTwo ==
    /\ choice \in Interrupts =>
           /\ pc \in {"transfer", "retry", "done"}
           /\ ydl_opts.noplaylist
           /\ \A i \in 1..Len(transferLog) : transferLog[i].noplaylist
    /\ (~ydl_opts.noplaylist \/ \E i \in 1..Len(transferLog) : ~transferLog[i].noplaylist)
           => choice = "2"

\* C15 witness: the question ended in end of input and the transfer was made.
C15_Witness ==
    /\ choice = "EOFError"
    /\ Len(transferLog) = 1
    /\ transferLog[1].noplaylist
    /\ outcome = "Succeeded"

\* the URL download() works on (the cleaned one) has 'list=' or, in any
\* letter case, 'playlist'
RecognisedAsPlaylist ==
    /\ argv_url # <<>>
    /\ LET u == CleanYoutubeUrl(argv_url[1])
       IN  \/ \E i \in 1..Len(u.query) : u.query[i] = Param("list", u.query[i].value)
           \/ Lower(u.path) = "/playlist"

\* C16: in a download() on a URL recognised as a playlist URL no format
\* probe is ever issued (no alarm, no probe result, no exact identifier) and
\* the transfer is built and made with the generic fallback selector.
C16_PlaylistUrlSkipsProbe ==
    (RecognisedAsPlaylist /\ ~list_formats_flag) =>
        /\ pc # "probe" /\ alarm = 0 /\ handler = "SIG_DFL"
        /\ probe \in {"none", "skipped"}
        /\ best_format = None
        /\ pc \in {"check", "ask", "transfer", "retry", "done"} =>
               (probe = "skipped" /\ ydl_opts.format = FallbackSelector)
        /\ Len(transferLog) >= 1 => transferLog[1].format = FallbackSelector
        /\ Len(transferLog) = 2 => transferLog[2].format = AdvancedSelector

\* C16 witness: the run on the playlist page skipped the probe and made the
\* transfer.
C16_Witness ==
    /\ RecognisedAsPlaylist
    /\ argv_url[1].path = "/Playlist"
    /\ probe = "skipped"
    /\ Len(transferLog) >= 1
    /\ outcome = "Succeeded"

\* the browser the claim gives for what settings.json holds
ExpectedBrowser(json) ==
    IF ~json.has_cookies \/ ~json.has_preferred_browser THEN "chrome"
    ELSE CASE json.cookies.preferred_browser \in {"firefox", "Firefox"} -> "firefox"
           [] json.cookies.preferred_browser \in {"edge", "EDGE"} -> "edge"
           [] OTHER -> "chrome"

\* C18: once the settings are loaded, preferred_browser is one of chrome,
\* firefox, edge; loading turns a missing value and an unrecognised value
\* into chrome and a recognised value in any letter case into its lower-case
\* form; no step after the loading changes the settings.
C18_PreferredBrowserNormalised ==
    /\ [](pc \notin {"main", "exited"} => settings.cookies \in CookieSettings)
    /\ [][(pc = "main" /\ pc' = "start") =>
              settings'.cookies.preferred_browser = ExpectedBrowser(settings)]_vars
    /\ [][pc \notin {"main", "exited"} => settings' = settings]_vars

\* C18 witness: settings.json named the browser safari, the warning was
\* printed and the run was made, to its end, with chrome.
C18_Witness ==
    /\ pc = "done"
    /\ warning = "safari"
    /\ settings.cookies.preferred_browser = "chrome"
    /\ Len(transferLog) >= 1

\* the fallback expression: the alternatives in their order
ExpectedFallback ==
    "bestaudio[acodec=opus]" \o "/" \o "bestaudio[ext=webm]" \o "/"
        \o "bestaudio[ext=m4a]" \o "/" \o "bestaudio" \o "/" \o "best"

\* download() is past its probe phase
ProbeOver ==
    /\ ~list_formats_flag
    /\ pc \in {"check", "ask", "transfer", "retry", "done"}

\* C21: once the probe phase is over, a selector is defined; when the probe
\* was skipped, failed, timed out or returned no audio-only descriptor (no
\* exact identifier), the selector is the fallback expression with the
\* alternatives opus codec, webm, m4a, best audio, best, in that order, and
\* the first transfer is made with it.
C21_FallbackSelectorDefined ==
    ProbeOver =>
        /\ ydl_opts.format # None
        /\ (probe \in {"skipped", "error", "timeout", "sort_error"} \/ best_format = None) =>
               /\ best_format = None
               /\ ydl_opts.format = ExpectedFallback
               /\ Len(transferLog) >= 1 => transferLog[1].format = ExpectedFallback
        /\ best_format # None => ydl_opts.format = best_format

\* C21 witness: the probe returned a list without an audio-only descriptor
\* and the transfer was made.
C21_Witness ==
    /\ probe = "returned"
    /\ best_format = None
    /\ Len(transferLog) = 1
    /\ transferLog[1].format = FallbackSelector
    /\ outcome = "Succeeded"

\* C23: list_formats issues at most two metadata queries: the second is
\* issued only after the first gave nothing but images or raised with one of
\* the signatures, it carries neither a cookie file nor a browser-extraction
\* directive and has the generic best-audio selector, and the listing ends
\* when it returns or raises.
C23_AtMostTwoListQueries ==
    /\ Len(listLog) <= 2
    /\ pc = "list1" => listLog = <<>>
    /\ pc = "list2" =>
          /\ Len(listLog) = 1
          /\ ydl_opts_advanced.cookiefile = None
          /\ ydl_opts_advanced.cookiesfrombrowser = None
          /\ ydl_opts_advanced.format = "bestaudio/best"
    /\ Len(listLog) = 2 =>
          /\ pc = "done"
          /\ listLog[1].result \in {"images", "error_signature"}
          /\ listLog[2].opts.cookiefile = None
          /\ listLog[2].opts.cookiesfrombrowser = None
          /\ listLog[2].opts.format = "bestaudio/best"

\* C23 witness: the first query, made with a cookie file, raised with a
\* signature, and the second query raised as well.
C23_Witness ==
    /\ Len(listLog) = 2
    /\ listLog[1].opts.cookiefile # None
    /\ listLog[1].result = "error_signature"
    /\ listLog[2].result = "error_other"
    /\ pc = "done"

\* the run has escalated: the credentials were resolved a second time
Escalated == Len(resolveLog) = 2

\* C25: the escalated attempt is made on a resolution with escalate = TRUE
\* and with the broadened selector expression, never with the exact
\* identifier of the primary attempt; once the run has escalated it ends in
\* Succeeded only when the escalated transfer returned, and in Failed after
\* any failure of the escalated attempt, one before its transfer included.
C25_EscalatedAttempt ==
    /\ Escalated =>
          /\ resolveLog[2].escalate
          /\ ydl_opts_advanced.format = AdvancedSelector
          /\ ydl_opts_advanced.format # best_format
    /\ pc = "retry" => Escalated
    /\ Len(transferLog) = 2 =>
          /\ Escalated
          /\ transferLog[2].format = AdvancedSelector
          /\ transferLog[2].format # best_format
    /\ (pc = "done" /\ Escalated) =>
          /\ outcome \in {"Succeeded", "Failed"}
          /\ outcome = "Succeeded" <=> (Len(transferLog) = 2 /\ Len(errorLog) = 1)

\* C25 witness: the primary attempt was made with an exact identifier, and
\* the escalated attempt failed with an error that is not credential-related.
C25_Witness ==
    /\ pc = "done"
    /\ best_format # None
    /\ Len(transferLog) = 2
    /\ transferLog[1].format = best_format
    /\ Len(errorLog) = 2
    /\ ~IsCookieRelated(errorLog[2])
    /\ outcome = "Failed"

\* C26: the slot of the owned temporary cookie file is empty whenever
\* download() has returned, and it is only ever set when it is empty: the
\* escalated attempt finds it cleared before it materializes a new
\* credential.
C26_SlotSetOnlyWhenEmpty ==
    /\ [](pc = "done" => temp_cookie_file = None)
    /\ [][(temp_cookie_file' # temp_cookie_file /\ temp_cookie_file' # None)
              => (temp_cookie_file = None)]_vars

\* C29: every run of download() that is no listing reaches Succeeded or
\* Failed, also when no metadata query is ever answered: the probe and the
\* playlist check are both ended by the deadline.
C29_DownloadEnds ==
    (pc = "start" /\ ~list_formats_flag)
        ~> (pc = "done" /\ outcome \in {"Succeeded", "Failed"})

\* C30: the playlist decision holds for every transfer of the run: after the
\* answer "2" (the whole playlist) every transfer, the escalated one
\* included, is made in entire-collection mode, and otherwise every transfer
\* is made in first-item-only mode.
C30_PlaylistDecisionKept ==
    \A i \in 1..Len(transferLog) : transferLog[i].noplaylist = (choice # "2")

\* download() is past its probe phase, on whichever exit: the playlist
\* check, the question, the transfer, the escalated attempt, the end
AfterProbePhase ==
    /\ ~list_formats_flag
    /\ pc \in {"check", "ask", "transfer", "retry", "done"}
    /\ probe \in {"returned", "sort_error", "error", "timeout"}

ParamNames == {"v", "list", "si"}
ParamValues == {"", "A", "%20", "%2541"}
Segments ==
    [name : ParamNames, has_eq : {TRUE}, value : ParamValues]
        \cup {[name |-> "v", has_eq |-> FALSE, value |-> ""]}
Netlocs == {"www.youtube.com", "youtu.be", "example.com"}

Urls ==
    {u \in [netloc : Netlocs,
            query : UNION {[1..n -> Segments] : n \in 0..MaxParams},
            bare_q : BOOLEAN] :
        u.bare_q => u.query = <<>>}

InitUrl ==
    /\ NoRun
    /\ call = "clean"
    /\ url \in Urls
    /\ cleaned_url = <<>>
    /\ NoBitrateCall /\ NoSelectCall /\ NoResolveCall /\ NoCookieCall

\* _clean_youtube_url(url), then _clean_youtube_url on what it returned
CleanUrl ==
    /\ call = "clean" /\ Len(cleaned_url) < 2
    /\ cleaned_url' =
           Append(cleaned_url,
                  CleanYoutubeUrl(IF cleaned_url = <<>> THEN url ELSE cleaned_url[1]))
    /\ UNCHANGED <<call, url, audio_quality, opus_bitrate, formats, selection,
      resolve_input, resolved, cookie_store, cookie_rows,
                   cookie_file, cookie_temps>>
    /\ UNCHANGED runVars

NextUrl == CleanUrl

SpecUrl == InitUrl /\ [][NextUrl]_vars

\* C6: cleaning the cleaned URL gives the cleaned URL, for every URL.
C6_CleanIdempotent == Len(cleaned_url) = 2 => cleaned_url[2] = cleaned_url[1]

\* C6 witness: a YouTube URL that the first cleaning changed (a parameter
\* dropped, a value written differently) has been cleaned twice.
C6_Witness ==
    /\ Len(cleaned_url) = 2
    /\ IsYouTubeNetloc(url.netloc)
    /\ Len(cleaned_url[1].query) >= 1
    /\ Len(cleaned_url[1].query) < Len(url.query)
    /\ \E i \in 1..Len(cleaned_url[1].query) :
          cleaned_url[1].query[i].value = "%2541"

\* the parameters of a query as written: the segments with an '='
WrittenParams(query) == SelectSeq(query, LAMBDA seg : seg.has_eq)
Decoded(segs) ==
    [i \in 1..Len(segs) |-> [name |-> Unquote(segs[i].name),
                             value |-> Unquote(segs[i].value)]]
AllowListed(pairs) == SelectSeq(pairs, LAMBDA q : q.name \in essential_params)

\* C7 as claimed: the cleaned query of a YouTube URL holds every allow-listed
\* parameter of the URL with its value, in the original order, and nothing else.
C7_KeepsEveryAllowListedParam ==
    (Len(cleaned_url) >= 1 /\ IsYouTubeNetloc(url.netloc)) =>
        Decoded(cleaned_url[1].query) = AllowListed(Decoded(WrittenParams(url.query)))

\* the place of the first segment of the query that gives name a non-blank value
FirstNonBlank(query, name) ==
    CHOOSE i \in 1..Len(query) :
        /\ query[i].has_eq /\ query[i].value # "" /\ Unquote(query[i].name) = name
        /\ \A j \in 1..(i - 1) :
              ~(query[j].has_eq /\ query[j].value # "" /\ Unquote(query[j].name) = name)

HasNonBlank(query, name) ==
    \E i \in 1..Len(query) :
        query[i].has_eq /\ query[i].value # "" /\ Unquote(query[i].name) = name

\* C7 as amended: the cleaned query of a YouTube URL holds exactly one
\* parameter for each allow-listed name that the URL gives a non-blank value,
\* with the first non-blank value of that name, in the order in which those
\* first values stand in the URL; it holds nothing else (no other name, no
\* blank value, no later duplicate).
C7_KeepsFirstNonBlankAllowListed ==
    (Len(cleaned_url) >= 1 /\ IsYouTubeNetloc(url.netloc)) =>
        LET out == cleaned_url[1].query
            names == [i \in 1..Len(out) |-> Unquote(out[i].name)]
        IN  /\ \A i \in 1..Len(out) :
                  /\ out[i].has_eq
                  /\ names[i] \in essential_params
                  /\ HasNonBlank(url.query, names[i])
                  /\ Unquote(out[i].value) =
                         Unquote(url.query[FirstNonBlank(url.query, names[i])].value)
            /\ \A i, j \in 1..Len(out) :
                  i < j => FirstNonBlank(url.query, names[i])
                               < FirstNonBlank(url.query, names[j])
            /\ \A n \in essential_params :
                  HasNonBlank(url.query, n) => \E i \in 1..Len(out) : names[i] = n

\* C7 witness: a YouTube URL with a duplicated allow-listed parameter, a
\* second allow-listed parameter and a parameter off the list has been cleaned
\* to two parameters.
C7_Witness ==
    /\ Len(cleaned_url) >= 1
    /\ IsYouTubeNetloc(url.netloc)
    /\ Len(url.query) = 3
    /\ url.query[1].name = "v" /\ url.query[1].has_eq /\ url.query[1].value = "A"
    /\ url.query[2].name = "v" /\ url.query[2].has_eq /\ url.query[2].value = "%20"
    /\ url.query[3].name = "list" /\ url.query[3].value = "A"
    /\ Len(cleaned_url[1].query) = 2

(***************************************************************************)
(* _get_opus_bitrate.  A quality setting is a string (its characters), an  *)
(* integer, or None; the result is a string.                               *)
(***************************************************************************)
MaxQualityLen == 4
MinOpusBitrate == 128

DigitChars == <<"0", "1", "2", "4", "6", "8", "9">>
DigitValues == <<0, 1, 2, 4, 6, 8, 9>>
QualityChars == SeqRange(DigitChars) \cup {"k", "x"}

Best == <<"b", "e", "s", "t">>
Str128k == <<"1", "2", "8", "k">>
Str192k == <<"1", "9", "2", "k">>

DigitValue(c) == DigitValues[CHOOSE i \in 1..Len(DigitChars) : DigitChars[i] = c]

Front(chars) == SubSeq(chars, 1, Len(chars) - 1)
EndsWithK(chars) == chars # <<>> /\ chars[Len(chars)] = "k"

\* int(chars) raises ValueError unless chars is a non-empty run of digits
IntParses(chars) ==
    chars # <<>> /\ \A i \in 1..Len(chars) : chars[i] \in SeqRange(DigitChars)

RECURSIVE IntOf(_)
IntOf(chars) ==
    IF chars = <<>> THEN 0
    ELSE 10 * IntOf(Front(chars)) + DigitValue(chars[Len(chars)])

\* the decimal digits of n >= 0 whose digits are all in DigitChars
RECURSIVE StrOf(_)
StrOf(n) ==
    LET d == CHOOSE i \in 1..Len(DigitValues) : DigitValues[i] = n % 10
    IN  IF n < 10 THEN <<DigitChars[d]>> ELSE StrOf(n \div 10) \o <<DigitChars[d]>>

\* _get_opus_bitrate without the floor on the "<N>k" form
GetOpusBitrateNoFloor(quality) ==
    IF quality.type = "str" /\ quality.chars = Best THEN Str192k
    ELSE IF quality.type = "str" /\ EndsWithK(quality.chars)
            /\ IntParses(Front(quality.chars))
    THEN quality.chars
    ELSE Str128k

GetOpusBitrate(quality) ==
    IF quality.type = "str" /\ quality.chars = Best THEN Str192k
    ELSE IF quality.type = "str" /\ EndsWithK(quality.chars)
            /\ IntParses(Front(quality.chars))
    THEN IF IntOf(Front(quality.chars)) < MinOpusBitrate THEN Str128k
         ELSE quality.chars
    ELSE IF quality.type = "int" \/ (quality.type = "str" /\ IntParses(quality.chars))
    THEN LET bitrate_num == IF quality.type = "int" THEN quality.n
                            ELSE IntOf(quality.chars)
         IN  IF bitrate_num < MinOpusBitrate THEN Str128k
             ELSE StrOf(bitrate_num) \o <<"k">>
    ELSE Str128k

QualityStrings == UNION {[1..n -> QualityChars] : n \in 0..MaxQualityLen}
QualityInts == {-1, 0, 64, 126, 128, 129, 192, 1000}
Qualities ==
    {[type |-> "str", chars |-> c, n |-> 0] : c \in QualityStrings \cup {Best}}
        \cup {[type |-> "int", chars |-> <<>>, n |-> n] : n \in QualityInts}
        \cup {[type |-> "none", chars |-> <<>>, n |-> 0]}

InitBitrate ==
    /\ NoRun
    /\ call = "bitrate"
    /\ audio_quality \in Qualities
    /\ opus_bitrate = None
    /\ NoUrlCall /\ NoSelectCall /\ NoResolveCall /\ NoCookieCall

\* self._get_opus_bitrate()
CallGetOpusBitrate ==
    /\ call = "bitrate"
    /\ call' = "bitrate_done"
    /\ opus_bitrate' = GetOpusBitrate(audio_quality)
    /\ UNCHANGED <<url, cleaned_url, audio_quality, formats, selection,
                   resolve_input, resolved, cookie_store, cookie_rows,
                   cookie_file, cookie_temps>>
    /\ UNCHANGED runVars

NextBitrate == CallGetOpusBitrate

SpecBitrate == InitBitrate /\ [][NextBitrate]_vars

IsNumberK(q) == q.type = "str" /\ EndsWithK(q.chars) /\ IntParses(Front(q.chars))
IsNumber(q) == q.type = "int" \/ (q.type = "str" /\ IntParses(q.chars))
IsBest(q) == q.type = "str" /\ q.chars = Best
NumberOf(q) ==
    IF q.type = "int" THEN q.n
    ELSE IF EndsWithK(q.chars) THEN IntOf(Front(q.chars)) ELSE IntOf(q.chars)

\* C9: "best" gives "192k"; "<N>k" and N give "128k" when N < 128 and
\* "<N>k" when N >= 128; everything else gives "128k"; the result is always
\* a number of at least 128 followed by k.
C9_BitrateFloor ==
    call = "bitrate_done" =>
        LET q == audio_quality
            r == opus_bitrate
        IN  /\ IsBest(q) => r = Str192k
            /\ (IsNumberK(q) \/ IsNumber(q)) =>
                   IF NumberOf(q) < 128 THEN r = Str128k
                   ELSE /\ EndsWithK(r) /\ IntParses(Front(r))
                        /\ IntOf(Front(r)) = NumberOf(q)
            /\ (IsNumberK(q) /\ NumberOf(q) >= 128) => r = q.chars
            /\ ~(IsBest(q) \/ IsNumberK(q) \/ IsNumber(q)) => r = Str128k
            /\ EndsWithK(r) /\ IntParses(Front(r)) /\ IntOf(Front(r)) >= 128

\* C9 witness: the setting "64k" has been raised to "128k".
C9_Witness ==
    /\ call = "bitrate_done"
    /\ audio_quality.type = "str"
    /\ audio_quality.chars = <<"6", "4", "k">>
    /\ opus_bitrate = Str128k

(***************************************************************************)
(* The format selection of download() on the descriptor list of a probe.   *)
(***************************************************************************)
MaxFormats == 3

\* the kinds of descriptor: opus audio, m4a audio, webm audio that is not
\* opus, video with audio, opus with video, and the storyboard (images, no
\* audio and no video codec)
DescriptorKinds ==
    {[acodec |-> "opus", vcodec |-> "none", ext |-> "webm", note |-> "medium"],
     [acodec |-> "mp4a", vcodec |-> "none", ext |-> "m4a", note |-> "medium"],
     [acodec |-> "vorbis", vcodec |-> "none", ext |-> "webm", note |-> ""],
     [acodec |-> "mp4a", vcodec |-> "avc1", ext |-> "mp4", note |-> "720p"],
     [acodec |-> "opus", vcodec |-> "vp9", ext |-> "webm", note |-> "720p"],
     [acodec |-> "none", vcodec |-> "none", ext |-> "mhtml", note |-> "Storyboard"]}

DescriptorLists ==
    UNION {[1..n -> [kind : DescriptorKinds, a : AbrFields]] : n \in 0..MaxFormats}

ListWithIds(l) ==
    [i \in 1..Len(l) |->
        Descriptor(FormatIds[i], l[i].kind.acodec, l[i].kind.vcodec, l[i].kind.ext,
                   l[i].kind.note, l[i].a)]

InitSelect ==
    /\ NoRun
    /\ call = "select"
    /\ formats \in {ListWithIds(l) : l \in DescriptorLists}
    /\ selection = None
    /\ NoUrlCall /\ NoBitrateCall /\ NoResolveCall /\ NoCookieCall

\* the selection is made on the list
CallSelect ==
    /\ call = "select"
    /\ call' = "select_done"
    /\ selection' = SelectBestFormat(formats)
    /\ UNCHANGED <<url, cleaned_url, audio_quality, opus_bitrate, formats,
                   resolve_input, resolved, cookie_store, cookie_rows,
                   cookie_file, cookie_temps>>
    /\ UNCHANGED runVars

NextSelect == CallSelect

SpecSelect == InitSelect /\ [][NextSelect]_vars

\* the bitrate of a descriptor, a missing one counting as the lowest
Bitrate(f) == IF f.abr_key = "num" THEN f.abr ELSE 0

\* C8: when the list has an audio-only opus descriptor, the selection gives
\* the identifier of an audio-only opus descriptor of the list whose bitrate
\* is the highest among the audio-only opus descriptors.
C8_HighestOpusSelected ==
    (call = "select_done" /\ \E i \in 1..Len(formats) : IsOpusAudio(formats[i])) =>
        /\ ~selection.raised
        /\ \E i \in 1..Len(formats) :
              /\ IsOpusAudio(formats[i])
              /\ selection.best = formats[i].format_id
              /\ \A j \in 1..Len(formats) :
                    IsOpusAudio(formats[j]) => Bitrate(formats[j]) <= Bitrate(formats[i])

\* C17: when every descriptor of a non-empty list is an image or storyboard
\* placeholder, the selection of download() gives no exact identifier (no
\* placeholder is chosen as the download target).
C17_NoPlaceholderChosen ==
    (call = "select_done" /\ formats # <<>>
        /\ \A i \in 1..Len(formats) : IsPlaceholder(formats[i]))
    => selection.best = None

\* the selection is the identifier of a descriptor of the list that satisfies
\* Tier and has the highest bitrate among those that do
HighestOf(Tier(_)) ==
    /\ ~selection.raised
    /\ \E i \in 1..Len(formats) :
          /\ Tier(formats[i])
          /\ selection.best = formats[i].format_id
          /\ \A j \in 1..Len(formats) :
                Tier(formats[j]) => Bitrate(formats[j]) <= Bitrate(formats[i])

HasSome(Tier(_)) == \E i \in 1..Len(formats) : Tier(formats[i])

\* C22: with no audio-only opus descriptor the highest-bitrate audio-only
\* webm descriptor is selected; with neither, the highest-bitrate audio-only
\* descriptor of any kind; a descriptor that carries video is never the
\* exact identifier.
C22_TiersFirstMatch ==
    call = "select_done" =>
        /\ (~HasSome(IsOpusAudio) /\ HasSome(IsWebmAudio)) => HighestOf(IsWebmAudio)
        /\ (~HasSome(IsOpusAudio) /\ ~HasSome(IsWebmAudio) /\ HasSome(IsAudioOnly))
               => HighestOf(IsAudioOnly)
        /\ \A i \in 1..Len(formats) :
               selection.best = formats[i].format_id => formats[i].vcodec = "none"

(***************************************************************************)
(* Calls of _get_base_options on its own, in every environment.            *)
(***************************************************************************)
InitResolve ==
    /\ NoRun
    /\ call = "resolve"
    /\ resolve_input \in [cookies : CookieSettings, escalate : BOOLEAN,
                           env : ResolveEnvs]
    /\ resolved = None
    /\ NoUrlCall /\ NoBitrateCall /\ NoSelectCall /\ NoCookieCall

\* self._get_base_options(use_fallback_cookies)
CallGetBaseOptions ==
    /\ call = "resolve"
    /\ call' = "resolve_done"
    /\ resolved' = GetBaseOptions(resolve_input.cookies, resolve_input.escalate,
                                  resolve_input.env, FreshTemp({}), None)
    /\ UNCHANGED <<url, cleaned_url, audio_quality, opus_bitrate, formats,
                   selection, resolve_input, cookie_store, cookie_rows,
                   cookie_file, cookie_temps>>
    /\ UNCHANGED runVars

NextResolve == CallGetBaseOptions

SpecResolve == InitResolve /\ [][NextResolve]_vars

\* the call went into _get_browser_cookies_fallback
ResolverCalled ==
    /\ resolve_input.cookies.use_browser_cookies
    /\ resolve_input.cookies.preferred_browser = "firefox" \/ resolve_input.escalate

\* C19: when the resolver reports no credential, every remaining source has
\* been tried: each of the three browsers through generic extraction when
\* the library is there, and, for firefox, the direct extraction, also when
\* the library is missing.
C19_NoneOnlyAfterEverySource ==
    (call = "resolve_done" /\ ResolverCalled /\ resolved.cookiefile = None) =>
        /\ resolve_input.env.lib => BrowserSet \subseteq SeqRange(resolved.trace)
        /\ resolve_input.cookies.preferred_browser = "firefox" =>
               "direct" \in SeqRange(resolved.trace)

\* a call for chrome or edge with browser cookies enabled
NonFirefoxCall ==
    /\ call = "resolve_done"
    /\ resolve_input.cookies.use_browser_cookies
    /\ resolve_input.cookies.preferred_browser # "firefox"

\* the fixed order of the generic extraction: the preferred browser, then
\* the others as the code lists them (chrome, firefox, edge)
FixedOrder(preferred) ==
    IF preferred = "chrome" THEN <<"chrome", "firefox", "edge">>
    ELSE <<"edge", "chrome", "firefox">>

\* how many browsers of the order are tried: up to the first whose cookies
\* are saved, all of them when there is none
TriedCount(order, gen) ==
    IF \E i \in 1..Len(order) : gen[order[i]] = "some"
    THEN CHOOSE i \in 1..Len(order) :
             gen[order[i]] = "some" /\ \A j \in 1..(i - 1) : gen[order[j]] # "some"
    ELSE Len(order)

\* C20 as claimed: on the primary call for a non-firefox browser whose
\* generic extraction yields zero cookies while another browser has
\* cookies, the other browsers are tried in the fixed order and the cookies
\* of the first that has some are returned.
C20_PrimaryTriesOtherBrowsers ==
    (NonFirefoxCall /\ ~resolve_input.escalate
        /\ resolve_input.env.gen[resolve_input.cookies.preferred_browser] = "zero"
        /\ \E b \in BrowserSet : resolve_input.env.gen[b] = "some") =>
        /\ resolved.cookiefile # None
        /\ resolved.trace =
               SubSeq(FixedOrder(resolve_input.cookies.preferred_browser), 1,
                      TriedCount(FixedOrder(resolve_input.cookies.preferred_browser),
                                 resolve_input.env.gen))

\* C20 as amended: for a non-firefox preferred browser the primary call
\* extracts nothing itself, it names the preferred browser for the built-in
\* extraction and tries no other browser; the escalated call, with the
\* library at hand, tries the preferred browser and then the others in the
\* fixed order up to the first whose cookies are saved and returns that
\* file; when no browser gives one (or the library is missing) it names the
\* preferred browser for the built-in extraction.
C20_EscalatedTriesOtherBrowsers ==
    NonFirefoxCall =>
        LET preferred == resolve_input.cookies.preferred_browser
            env == resolve_input.env
            order == FixedOrder(preferred)
            saved == \E b \in BrowserSet : env.gen[b] = "some"
        IN  /\ ~resolve_input.escalate =>
                   /\ resolved.trace = <<>>
                   /\ resolved.cookiefile = None
                   /\ resolved.cookiesfrombrowser = preferred
            /\ (resolve_input.escalate /\ env.lib) =>
                   /\ resolved.trace = SubSeq(order, 1, TriedCount(order, env.gen))
                   /\ saved => (resolved.cookiefile # None
                                   /\ resolved.cookiesfrombrowser = None)
                   /\ ~saved => (resolved.cookiefile = None
                                    /\ resolved.cookiesfrombrowser = preferred)
            /\ (resolve_input.escalate /\ ~env.lib) =>
                   /\ resolved.trace = <<>>
                   /\ resolved.cookiefile = None
                   /\ resolved.cookiesfrombrowser = preferred

\* C20 witness: an escalated call for edge found no cookie in edge, got an
\* error from chrome and returned the cookies of firefox.
C20_Witness ==
    /\ NonFirefoxCall
    /\ resolve_input.escalate
    /\ resolve_input.cookies.preferred_browser = "edge"
    /\ resolve_input.env.gen["edge"] = "zero"
    /\ resolve_input.env.gen["chrome"] = "error"
    /\ resolve_input.env.gen["firefox"] = "some"
    /\ resolved.trace = <<"edge", "chrome", "firefox">>
    /\ resolved.cookiefile # None

\* C24: the options _get_base_options returns never have both a cookie file
\* and a browser-extraction directive, and when the custom cookie file is
\* used no browser extraction is attempted and none is asked of the library.
C24_AtMostOneCredentialSource ==
    call = "resolve_done" =>
        /\ ~(resolved.cookiefile # None /\ resolved.cookiesfrombrowser # None)
        /\ resolved.cookiefile = resolve_input.cookies.custom_cookies_file /\ resolved.cookiefile # None
              => /\ resolved.trace = <<>>
                 /\ resolved.created = {}
                 /\ resolved.cookiesfrombrowser = None

\* C24 witness: the escalated call for chrome extracted a cookie file, and
\* the options name no browser.
C24_Witness ==
    /\ call = "resolve_done"
    /\ resolve_input.escalate
    /\ resolve_input.cookies.use_browser_cookies
    /\ resolve_input.cookies.preferred_browser = "chrome"
    /\ resolved.cookiefile \in resolved.created
    /\ resolved.cookiesfrombrowser = None

(***************************************************************************)
(* The writers of the temporary cookie file:                               *)
(* _convert_firefox_cookies_to_netscape (the direct path, on the rows of   *)
(* moz_cookies) and _save_cookies_to_file (the generic path, on the        *)
(* cookies browser_cookie3 gave).  A host is the sequence of its pieces,   *)
(* so that "notyoutube.com" is <<"not", "youtube", ".", "com">>.           *)
(***************************************************************************)
MaxCookies == 2

Hosts ==
    {<<"youtube", ".", "com">>,
     <<".", "youtube", ".", "com">>,
     <<"www", ".", "youtube", ".", "com">>,
     <<".", "music", ".", "youtube", ".", "com">>,
     <<"not", "youtube", ".", "com">>,
     <<".", "not", "youtube", ".", "com">>,
     <<"youtube", ".", "com", ".", "evil", ".", "org">>,
     <<".", "evil", ".", "org">>}

StartsWith(h, prefix) ==
    Len(h) >= Len(prefix) /\ SubSeq(h, 1, Len(prefix)) = prefix
EndsWith(h, suffix) ==
    Len(h) >= Len(suffix) /\ SubSeq(h, Len(h) - Len(suffix) + 1, Len(h)) = suffix

\* WHERE host LIKE '%youtube.com'
HostLikeYoutube(host) == EndsWith(host, <<"youtube", ".", "com">>)

\* CASE WHEN host LIKE '.%' THEN 'TRUE' ELSE 'FALSE' END
IsDomain(host) == IF StartsWith(host, <<".">>) THEN "TRUE" ELSE "FALSE"

\* the line written for one row of the query: the dot is put before the
\* host only when is_domain is 'TRUE' and the host has none
DirectRow(host) ==
    [domain |-> IF IsDomain(host) = "TRUE" /\ ~StartsWith(host, <<".">>)
                THEN <<".">> \o host ELSE host,
     flag |-> IsDomain(host)]

\* _convert_firefox_cookies_to_netscape gone through: the rows of the
\* query, one line each, in the order of the table
ConvertFirefoxCookiesToNetscape(rows) ==
    LET selected == SelectSeq(rows, HostLikeYoutube)
    IN  [i \in 1..Len(selected) |-> DirectRow(selected[i])]

\* the line _save_cookies_to_file writes for one cookie
SavedRow(domain) ==
    [domain |-> IF StartsWith(domain, <<".">>) THEN domain ELSE <<".">> \o domain,
     flag |-> "TRUE"]

\* _save_cookies_to_file gone through: one line for every cookie
SaveCookiesToFile(cookies) ==
    [i \in 1..Len(cookies) |-> SavedRow(cookies[i])]

\* the temporary files of the writers: the private copy of cookies.sqlite
\* and the cookie file in Netscape format
TempSqlite == "tmp.sqlite"
TempCookieFile == "tmp.cookies"

\* where _convert_firefox_cookies_to_netscape can raise: creating the copy's
\* file, shutil.copy2, creating the cookie file, the header, the connection
\* and the query, the writing of the lines and the closing, os.unlink of
\* the copy; "none": nothing raises
ConvertFailures ==
    {"none", "sqlite_temp", "copy", "cookie_temp", "query", "write", "unlink"}

\* _convert_firefox_cookies_to_netscape(sqlite_file) on the rows of the
\* store: what it returns, the temporary files it leaves and the lines it
\* wrote.  The handler of every exception only prints and returns None.
ConvertFirefox(rows, fail) ==
    [file |-> IF fail = "none" THEN TempCookieFile ELSE None,
     temps |-> CASE fail = "sqlite_temp" -> {}
                 [] fail \in {"copy", "cookie_temp"} -> {TempSqlite}
                 [] fail \in {"query", "write", "unlink"} -> {TempSqlite, TempCookieFile}
                 [] OTHER -> {TempCookieFile},
     rows |-> IF fail \in {"none", "unlink"}
              THEN ConvertFirefoxCookiesToNetscape(rows) ELSE <<>>]

\* where _save_cookies_to_file can raise: the writing of the header and of
\* the lines
SaveFailures == {"none", "write"}

\* _save_cookies_to_file(cookies): the handler unlinks the cookie file and
\* returns None
SaveCookies(cookies, fail) ==
    IF fail = "none"
    THEN [file |-> TempCookieFile, temps |-> {TempCookieFile},
          rows |-> SaveCookiesToFile(cookies)]
    ELSE [file |-> None, temps |-> {}, rows |-> <<>>]

CookieLists == UNION {[1..n -> Hosts] : n \in 0..MaxCookies}

InitCookies ==
    /\ NoRun
    /\ call = "cookies"
    /\ cookie_store \in
          [by : {"direct"}, hosts : CookieLists, fail : ConvertFailures]
            \cup [by : {"generic"}, hosts : CookieLists, fail : SaveFailures]
    /\ cookie_rows = <<>>
    /\ cookie_file = None
    /\ cookie_temps = {}
    /\ NoUrlCall /\ NoBitrateCall /\ NoSelectCall /\ NoResolveCall

\* self._convert_firefox_cookies_to_netscape(cookie_file)
CallConvertFirefoxCookies ==
    /\ call = "cookies" /\ cookie_store.by = "direct"
    /\ call' = "cookies_done"
    /\ LET r == ConvertFirefox(cookie_store.hosts, cookie_store.fail)
       IN  /\ cookie_rows' = r.rows
           /\ cookie_file' = r.file
           /\ cookie_temps' = r.temps
    /\ UNCHANGED <<url, cleaned_url, audio_quality, opus_bitrate, formats,
                   selection, resolve_input, resolved, cookie_store>>
    /\ UNCHANGED runVars

\* self._save_cookies_to_file(cookies)
CallSaveCookiesToFile ==
    /\ call = "cookies" /\ cookie_store.by = "generic"
    /\ call' = "cookies_done"
    /\ LET r == SaveCookies(cookie_store.hosts, cookie_store.fail)
       IN  /\ cookie_rows' = r.rows
           /\ cookie_file' = r.file
           /\ cookie_temps' = r.temps
    /\ UNCHANGED <<url, cleaned_url, audio_quality, opus_bitrate, formats,
                   selection, resolve_input, resolved, cookie_store>>
    /\ UNCHANGED runVars

NextCookies == CallConvertFirefoxCookies \/ CallSaveCookiesToFile

SpecCookies == InitCookies /\ [][NextCookies]_vars

\* the host is youtube.com or a subdomain of it, with or without the
\* leading dot
InTargetDomain(host) ==
    \/ host = <<"youtube", ".", "com">>
    \/ EndsWith(host, <<".", "youtube", ".", "com">>)

\* C27: every row the direct path writes has a host that is youtube.com or
\* a subdomain of youtube.com: a stored cookie of another host, also one that
\* only ends with the same characters, is not written.
C27_OnlyTargetDomainRows ==
    (call = "cookies_done" /\ cookie_store.by = "direct") =>
        \A i \in 1..Len(cookie_rows) : InTargetDomain(cookie_rows[i].domain)

\* C28: every row written to the cookie file, by the direct path and by the
\* generic path, has a domain field that begins with a dot.
C28_LeadingDotDomain ==
    call = "cookies_done" =>
        \A i \in 1..Len(cookie_rows) : StartsWith(cookie_rows[i].domain, <<".">>)

\* C31: when _convert_firefox_cookies_to_netscape has returned None, none of
\* the temporary files it created is on the disk, and when it has returned
\* a cookie file, that file is the only one.
C31_ConvertLeavesNoTemps ==
    (call = "cookies_done" /\ cookie_store.by = "direct") =>
        /\ cookie_file = None => cookie_temps = {}
        /\ cookie_file # None => cookie_temps = {cookie_file}

\* _get_browser_cookies_fallback returns the file of this writer: the direct
\* path returns whatever file the conversion returned ('if
\* netscape_cookie_file'), the generic path saves and returns only when the
\* browser gave at least one cookie ('if cookie_count > 0', 'if cookie_file')
FallbackReturnsFile ==
    /\ call = "cookies_done"
    /\ cookie_file # None
    /\ cookie_store.by = "generic" => Len(cookie_store.hosts) > 0

\* C33: a cookie file that _get_browser_cookies_fallback returns has at
\* least one cookie: from the direct path a row of youtube.com or of a
\* subdomain, from the generic path a cookie the browser gave for the domain.
C33_ReturnedFileHasCookie ==
    FallbackReturnsFile =>
        IF cookie_store.by = "direct"
        THEN \E i \in 1..Len(cookie_rows) : InTargetDomain(cookie_rows[i].domain)
        ELSE cookie_rows # <<>>

====
